---- MODULE Spec2Model ----
(***************************************************************************)
(* Model of the Earth Engine relay worker of src/src/index.ts.  The file   *)
(* holds two revisions of the handler: the single-compute proxy (lines     *)
(* 1-173) and the multi-dataset handler (lines 175-534).  One run of the   *)
(* handler is a record; the handler's code between two awaits is one       *)
(* operator on that record and one action of the specification.            *)
(*                                                                         *)
(* Numbers are fixed-point with one decimal digit: the integer n stands    *)
(* for n/10, so 4633 is the 463.3 of the registry and 900 is 90 degrees.   *)
(***************************************************************************)
EXTENDS Integers, Sequences, FiniteSets, TLC

VARIABLES revision, env, request, run, diffAt

vars == <<revision, env, request, run, diffAt>>

(***************************************************************************)
(* JavaScript values, as far as the handler looks at them.                 *)
(***************************************************************************)
JsVal(t, c, n, s) == [type |-> t, cls |-> c, num |-> n, segs |-> s]

Undefined == JsVal("undefined", "", 0, <<>>)

Null == JsVal("null", "", 0, <<>>)

False == JsVal("boolean", "", 0, <<>>)

\* a finite number, in tenths
Num(n) == JsVal("number", "finite", n, <<>>)

\* what JSON.parse makes of a literal such as 1e999
Infinity == JsVal("number", "inf", 1, <<>>)

NaN == JsVal("number", "nan", 0, <<>>)

\* a string, given as its pieces between the '/' characters
Str(s) == JsVal("string", "", 0, s)

\* the typeof operator: null is an object
TypeOf(v) == IF v.type = "null" THEN "object" ELSE v.type

IsNaN(v) == v.type = "number" /\ v.cls = "nan"

\* v <= 0 for a number v
LeqZero(v) ==
    CASE v.cls = "nan" -> FALSE
      [] v.cls = "inf" -> v.num < 0
      [] OTHER -> v.num <= 0

\* ToBoolean, as used by ||, && and if
Truthy(v) ==
    CASE v.type = "undefined" -> FALSE
      [] v.type = "null" -> FALSE
      [] v.type = "boolean" -> v.num # 0
      [] v.type = "number" -> ~(v.cls = "nan" \/ (v.cls = "finite" /\ v.num = 0))
      [] v.type = "string" -> v.segs # <<"">>
      [] OTHER -> TRUE

\* a || b
Or(a, b) == IF Truthy(a) THEN a ELSE b

\* what JSON.stringify writes for a number: null when it is not finite
StringifyNumber(v) == IF v.type = "number" /\ v.cls # "finite" THEN Null ELSE v

\* rawId.split('/').pop()
SplitPop(v) == Str(<<v.segs[Len(v.segs)]>>)

(***************************************************************************)
(* The request.                                                            *)
(***************************************************************************)
\* the outcome of request.json(): a thrown SyntaxError or the parsed value;
\* of a parsed value the handler reads lat, lon and scale only
Malformed == [json |-> "malformed", lat |-> Undefined, lon |-> Undefined, scale |-> Undefined]

NonObject(k) == [json |-> k, lat |-> Undefined, lon |-> Undefined, scale |-> Undefined]

Obj(la, lo, sc) == [json |-> "object", lat |-> la, lon |-> lo, scale |-> sc]

Methods == {"GET", "POST", "PUT"}

Paths == {"/", "/sensor", "/sensor-data", "/image", "/other"}

\* the largest latitude and longitude sent, both out of range, and the
\* custom scale sent, in tenths
MaxLat == 1000

MaxLon == 2000

MaxScale == 300

LatOk == Num(450)

LonOk == Num(-603)

LatValues == {Undefined, Str(<<"45">>), LatOk, Num(MaxLat), Infinity}

LonValues == {Undefined, Null, LonOk, Num(MaxLon)}

\* 5 is half a meter and 200000 is 20 km, on the two sides of the
\* documented limits of 1 and 10000 meters
ScaleValues ==
    {Undefined, Null, False, Num(0), Num(-50), Num(5), Num(MaxScale), Num(200000),
     Str(<<"10">>), Infinity}

\* the bodies sent: the texts that are no JSON (the empty body among them),
\* the JSON values that are no object with fields, and objects in which one
\* of lat, lon and scale varies around a valid request, or lat and scale do
Bodies ==
    {Malformed}
    \cup {NonObject(k) : k \in {"null", "number", "string", "array"}}
    \cup {Obj(Undefined, Undefined, Undefined)}
    \cup {Obj(la, LonOk, Undefined) : la \in LatValues}
    \cup {Obj(LatOk, lo, Undefined) : lo \in LonValues}
    \cup {Obj(LatOk, LonOk, sc) : sc \in ScaleValues}
    \cup {Obj(la, LonOk, sc) : la \in {Undefined, Num(MaxLat)}, sc \in {Num(0), Num(MaxScale)}}

Requests == [method : Methods, pathname : Paths, body : Bodies]

(***************************************************************************)
(* The secret and the credentials.                                         *)
(***************************************************************************)
\* env.SA_PRIVATE_KEY: whether the text is JSON, which of the three fields
\* the parsed object holds, and whether its private_key is a PKCS8 key
Secret(j, e, k, p) ==
    [json |-> j, client_email |-> e, private_key |-> k, project_id |-> p, pkcs8 |-> k]

\* a complete secret whose private_key is a string that is no PKCS8 key
SecretBadKey == [Secret(TRUE, TRUE, TRUE, TRUE) EXCEPT !.pkcs8 = FALSE]

Secrets ==
    {Secret(TRUE, TRUE, TRUE, TRUE), Secret(FALSE, FALSE, FALSE, FALSE),
     Secret(TRUE, TRUE, FALSE, TRUE), Secret(TRUE, TRUE, TRUE, FALSE), SecretBadKey}

\* extractCredentials: throws when the text is no JSON, and returns the parsed
\* object as it is otherwise, without looking at its fields
extractCredentials(e) ==
    IF ~e.SA_PRIVATE_KEY.json
    THEN [threw |-> TRUE, message |-> <<"Invalid JSON in SA_PRIVATE_KEY environment variable: ", "SyntaxError">>,
          serviceAccount |-> e.SA_PRIVATE_KEY]
    ELSE [threw |-> FALSE, message |-> <<>>, serviceAccount |-> e.SA_PRIVATE_KEY]

\* the part of authenticateViaPrivateKey before the exchange is sent:
\* importPKCS8 throws on a private_key that is no string or no PKCS8 key
importPKCS8Throws(serviceAccount) == ~serviceAccount.private_key \/ ~serviceAccount.pkcs8

\* serviceAccount.project_id, undefined when the field is missing
ProjectIdOf(serviceAccount) == IF serviceAccount.project_id THEN "project" ELSE "undefined"

(***************************************************************************)
(* The dataset registry and the expression sent for a dataset.             *)
(***************************************************************************)
datasets ==
    << [id |-> "MODIS/006/MOD13A1/2023_01_01", name |-> "MODIS Vegetation Indices",
        bands |-> <<"NDVI", "EVI">>, type |-> "image", defaultScale |-> Num(4633)],
       [id |-> "COPERNICUS/S2_SR_HARMONIZED", name |-> "Sentinel-2 Surface Reflectance",
        bands |-> <<"B4", "B8">>, type |-> "collection", defaultScale |-> Num(100)],
       [id |-> "COPERNICUS/S1_GRD", name |-> "Sentinel-1 SAR",
        bands |-> <<"HH", "HV">>, type |-> "collection", defaultScale |-> Num(250),
        filters |-> <<"instrumentMode = IW", "transmitterReceiverPolarisation contains VV">>],
       [id |-> "USGS/SRTMGL1_003", name |-> "SRTM Digital Elevation",
        bands |-> <<"elevation">>, type |-> "image", defaultScale |-> Num(300)],
       [id |-> "projects/mapbiomas-raisg/public/collection3/mapbiomas_raisg_panamazonia_collection3_integration_v2",
        name |-> "MapBiomas Pan-Amazonia",
        bands |-> <<"classification_2020">>, type |-> "image", defaultScale |-> Num(300)],
       [id |-> "LARSE/GEDI/GEDI02_A_002_MONTHLY", name |-> "GEDI Canopy Height",
        bands |-> <<"rh98">>, type |-> "collection", defaultScale |-> Num(250)],
       [id |-> "NASA/JPL/global_forest_canopy_height_2005", name |-> "Global Forest Canopy Height",
        bands |-> <<"1">>, type |-> "image", defaultScale |-> Num(9277)] >>

DatasetNames == {datasets[i].name : i \in 1..Len(datasets)}

\* dataset.name.includes(sub), for the substrings the handler asks about
Includes(name, sub) ==
    CASE name = "Sentinel-2 Surface Reflectance" -> sub \in {"Sentinel", "Sentinel-2"}
      [] name = "Sentinel-1 SAR" -> sub \in {"Sentinel", "Sentinel-1"}
      [] OTHER -> FALSE

Load(fn, id) == [functionName |-> fn, constantValue |-> id, valueReference |-> 0, bandSelectors |-> <<>>]

First(ref) == [functionName |-> "Collection.first", constantValue |-> "", valueReference |-> ref, bandSelectors |-> <<>>]

Select(ref, bands) == [functionName |-> "Image.select", constantValue |-> "", valueReference |-> ref, bandSelectors |-> bands]

\* Expression applying the first of the registry's filters to a collection
ExpressionFiltered(dataset) ==
    IF dataset.type = "image"
    THEN [values |-> <<Load("Image.load", dataset.id), Select(1, dataset.bands)>>, result |-> 2]
    ELSE IF "filters" \in DOMAIN dataset
    THEN [values |-> <<Load("ImageCollection.load", dataset.id), [First(1) EXCEPT !.functionName = "Collection.filter",
                                        !.constantValue = dataset.filters[1]],
                       First(2), Select(3, dataset.bands)>>,
          result |-> 4]
    ELSE [values |-> <<Load("ImageCollection.load", dataset.id), First(1), Select(2, dataset.bands)>>,
          result |-> 3]

\* eeRequestBody.expression of the multi-dataset handler
Expression(dataset) ==
    IF dataset.type = "image"
    THEN [values |-> <<Load("Image.load", dataset.id), Select(1, dataset.bands)>>, result |-> 2]
    ELSE [values |-> <<Load("ImageCollection.load", dataset.id), First(1), Select(2, dataset.bands)>>,
          result |-> 3]

\* eeRequestBody.expression of the single-compute handler
SingleExpression ==
    [values |-> <<Load("Image.load", "MODIS/006/MOD13A1/2023_01_01"), Select(1, <<"NDVI">>)>>, result |-> 2]

TokenCall == [kind |-> "token", url |-> "https://oauth2.googleapis.com/token"]

ComputeCall(projectId, token, expression) ==
    [kind |-> "compute", projectId |-> projectId, token |-> token, expression |-> expression]

(***************************************************************************)
(* One run of the handler.                                                 *)
(***************************************************************************)
\* pc is the await the run is suspended at; calls lists the outbound calls
\* in the order they were issued, tokenRes and eeRes the replies of the token
\* exchange and of the compute calls in the order they arrived; response
\* holds the response once returned
NewRun ==
    [pc |-> "start", customScale |-> Undefined, credentialsParsed |-> FALSE,
     projectId |-> "", token |-> "", idx |-> 0, results |-> [n \in {} |-> Undefined],
     calls |-> <<>>, tokenRes |-> <<>>, eeRes |-> <<>>, response |-> <<>>]

\* return new Response(JSON.stringify(body), { status }); a message is the
\* sequence of the pieces it is concatenated from
Respond(h, status, body) ==
    [h EXCEPT !.pc = "done", !.response = <<[status |-> status, body |-> body]>>]

\* CatchTopLevel answering as for an upstream failure
CatchTopLevelBadGateway(h, message) == Respond(h, 502, [error |-> message])

\* CatchTopLevel throwing the exception again: the handler ends without a response
CatchTopLevelRethrow(h, message) == [h EXCEPT !.pc = "threw"]

\* the catch of the handler's outer try
CatchTopLevel(h, message) == Respond(h, 500, [error |-> message])

AcceptedPaths(rev) == IF rev = "single" THEN {"/sensor-data", "/"} ELSE {"/sensor", "/"}

\* Route with the path looked at before the method
RoutePathFirst(h, rev, req) ==
    IF req.pathname \notin AcceptedPaths(rev) THEN Respond(h, 404, [error |-> <<"Not found">>])
    ELSE IF req.method # "POST" THEN Respond(h, 405, [error |-> <<"Method not allowed">>])
    ELSE [h EXCEPT !.pc = "body"]

\* the method and path checks, up to the await of request.json()
Route(h, rev, req) ==
    IF req.method # "POST" THEN Respond(h, 405, [error |-> <<"Method not allowed">>])
    ELSE IF req.pathname \notin AcceptedPaths(rev) THEN Respond(h, 404, [error |-> <<"Not found">>])
    ELSE [h EXCEPT !.pc = "body"]

\* extractCredentials and authenticateViaPrivateKey up to the token exchange
Authenticate(h, e) ==
    LET extracted == extractCredentials(e)
        parsed == [h EXCEPT !.credentialsParsed = TRUE]
    IN  IF extracted.threw THEN CatchTopLevel(parsed, extracted.message)
        ELSE IF importPKCS8Throws(extracted.serviceAccount)
        THEN CatchTopLevel(parsed, <<"importPKCS8 failed">>)
        ELSE [parsed EXCEPT !.pc = "token", !.calls = Append(@, TokenCall),
                            !.projectId = ProjectIdOf(extracted.serviceAccount)]

\* the lat/lon checks shared by the two revisions
LatLonTypeInvalid(body) == TypeOf(body.lat) # "number" \/ TypeOf(body.lon) # "number"

LatLonNaN(body) == IsNaN(body.lat) \/ IsNaN(body.lon)

\* ScaleInvalid without the comparison with zero
ScaleInvalidNoSign(scale) == TypeOf(scale) # "number" \/ IsNaN(scale)

ScaleInvalid(scale) == TypeOf(scale) # "number" \/ IsNaN(scale) \/ LeqZero(scale)

\* ValidateSingle with the credentials extracted before lat and lon are checked
ValidateSingleCredentialsFirst(h, req, e) ==
    LET parsed == [h EXCEPT !.credentialsParsed = TRUE]
    IN  IF req.body.json = "malformed" THEN Respond(h, 400, [error |-> <<"Invalid JSON body">>])
        ELSE IF req.body.json = "null"
        THEN CatchTopLevel(h, <<"Cannot destructure property 'lat' of null">>)
        ELSE IF extractCredentials(e).threw THEN CatchTopLevel(parsed, extractCredentials(e).message)
        ELSE IF LatLonTypeInvalid(req.body)
        THEN Respond(parsed, 400, [error |-> <<"Missing or invalid lat/lon parameters">>])
        ELSE IF LatLonNaN(req.body) THEN Respond(parsed, 400, [error |-> <<"Invalid lat/lon values">>])
        ELSE Authenticate(h, e)

\* from the result of request.json() to the token exchange, single-compute
ValidateSingle(h, req, e) ==
    IF req.body.json = "malformed" THEN Respond(h, 400, [error |-> <<"Invalid JSON body">>])
    ELSE IF req.body.json = "null" THEN CatchTopLevel(h, <<"Cannot destructure property 'lat' of null">>)
    ELSE IF LatLonTypeInvalid(req.body)
    THEN Respond(h, 400, [error |-> <<"Missing or invalid lat/lon parameters">>])
    ELSE IF LatLonNaN(req.body) THEN Respond(h, 400, [error |-> <<"Invalid lat/lon values">>])
    ELSE Authenticate(h, e)

\* ValidateMulti with the scale looked at before lat and lon
ValidateScaleFirst(h, req, e) ==
    IF req.body.json = "malformed" THEN Respond(h, 400, [error |-> <<"Invalid JSON body">>])
    ELSE IF req.body.json = "null" THEN CatchTopLevel(h, <<"Cannot destructure property 'lat' of null">>)
    ELSE IF req.body.scale # Undefined /\ ScaleInvalid(req.body.scale)
    THEN Respond(h, 400, [error |-> <<"Scale must be a positive number">>])
    ELSE IF LatLonTypeInvalid(req.body)
    THEN Respond(h, 400, [error |-> <<"Missing or invalid lat/lon parameters">>])
    ELSE IF LatLonNaN(req.body) THEN Respond(h, 400, [error |-> <<"Invalid lat/lon values">>])
    ELSE Authenticate([h EXCEPT !.customScale = req.body.scale], e)

\* from the result of request.json() to the token exchange, multi-dataset
ValidateMulti(h, req, e) ==
    IF req.body.json = "malformed" THEN Respond(h, 400, [error |-> <<"Invalid JSON body">>])
    ELSE IF req.body.json = "null" THEN CatchTopLevel(h, <<"Cannot destructure property 'lat' of null">>)
    ELSE IF LatLonTypeInvalid(req.body)
    THEN Respond(h, 400, [error |-> <<"Missing or invalid lat/lon parameters">>])
    ELSE IF LatLonNaN(req.body) THEN Respond(h, 400, [error |-> <<"Invalid lat/lon values">>])
    ELSE IF req.body.scale # Undefined /\ ScaleInvalid(req.body.scale)
    THEN Respond(h, 400, [error |-> <<"Scale must be a positive number">>])
    ELSE Authenticate([h EXCEPT !.customScale = req.body.scale], e)

\* Validate without the try around request.json(): the SyntaxError reaches
\* the outer catch
ValidateNoInnerCatch(h, rev, req, e) ==
    IF req.body.json = "malformed" THEN CatchTopLevel(h, <<"Unexpected end of JSON input">>)
    ELSE IF rev = "single" THEN ValidateSingle(h, req, e) ELSE ValidateMulti(h, req, e)

Validate(h, rev, req, e) ==
    IF rev = "single" THEN ValidateSingle(h, req, e) ELSE ValidateMulti(h, req, e)

(***************************************************************************)
(* The replies of the two upstream services.                               *)
(***************************************************************************)
\* a reply: the fetch throws, or it yields a response that is ok (2xx) or
\* not, whose text is JSON or not
TokenReply(throws, ok, text, json, token) ==
    [throws |-> throws, ok |-> ok, text |-> text, json |-> json, access_token |-> token]

TokenReplies ==
    {TokenReply(FALSE, TRUE, "", "object", "ya29.token"),
     TokenReply(FALSE, FALSE, "invalid_grant", "object", ""),
     TokenReply(TRUE, FALSE, "", "malformed", ""),
     TokenReply(FALSE, TRUE, "<html>", "malformed", "")}

\* data.result of a compute reply: missing, or an object of which the
\* handler reads id and three properties
ResultObj(id, index, granule, product) ==
    [kind |-> "object", id |-> id, index |-> index, granule |-> granule, product |-> product]

NoResult == [kind |-> "undefined", id |-> Undefined, index |-> Undefined,
             granule |-> Undefined, product |-> Undefined]

ComputeReply(throws, ok, text, json, result) ==
    [throws |-> throws, ok |-> ok, text |-> text, json |-> json, result |-> result]

FetchThrows == ComputeReply(TRUE, FALSE, "", "malformed", NoResult)

NotOk == ComputeReply(FALSE, FALSE, "Image.load: asset not found", "object", NoResult)

OkNotJson == ComputeReply(FALSE, TRUE, "<html>", "malformed", NoResult)

Ok(result) == ComputeReply(FALSE, TRUE, "", "object", result)

PlainResult == ResultObj(Undefined, Undefined, Undefined, Undefined)

SceneResult ==
    ResultObj(Str(<<"COPERNICUS", "S2_SR_HARMONIZED", "20230101T142709_T20MQB">>),
              Undefined, Undefined, Undefined)

\* the replies enumerated for a dataset
ComputeReplies(dataset) ==
    {FetchThrows, NotOk, Ok(PlainResult)}
    \cup (IF Includes(dataset.name, "Sentinel") THEN {Ok(SceneResult), OkNotJson} ELSE {})

(***************************************************************************)
(* The handler after the token exchange.                                   *)
(***************************************************************************)
\* EffectiveScale with the operands of || exchanged
EffectiveScaleDefaultFirst(customScale, dataset) == Or(dataset.defaultScale, customScale)

\* customScale || dataset.defaultScale
EffectiveScale(customScale, dataset) == Or(customScale, dataset.defaultScale)

\* RawId probing the four locations from the last to the first
RawIdReversed(result) ==
    IF result.kind # "object" THEN Undefined
    ELSE Or(Or(Or(result.product, result.granule), result.index), result.id)

\* the four locations probed for the scene identifier, joined by ||
RawId(result) ==
    IF result.kind # "object" THEN Undefined
    ELSE Or(Or(Or(result.id, result.index), result.granule), result.product)

\* SceneId without the test of the dataset's name
SceneIdAnyDataset(dataset, result) ==
    LET rawId == RawId(result)
    IN  IF Truthy(rawId) /\ TypeOf(rawId) = "string" THEN SplitPop(rawId) ELSE Undefined

\* the scene identifier of a successful reply, undefined when there is none
SceneId(dataset, result) ==
    IF ~Includes(dataset.name, "Sentinel") THEN Undefined
    ELSE LET rawId == RawId(result)
         IN  IF Truthy(rawId) /\ TypeOf(rawId) = "string"
             THEN IF Includes(dataset.name, "Sentinel-2") THEN SplitPop(rawId)
                  ELSE IF Includes(dataset.name, "Sentinel-1") THEN SplitPop(rawId)
                  ELSE Undefined
             ELSE Undefined

\* EntryBase reporting the effective scale as the default scale too
EntryBaseScaleAsDefault(status, dataset, scale) ==
    [status |-> status, id |-> dataset.id, type |-> dataset.type, bands |-> dataset.bands,
     scale |-> scale, defaultScale |-> scale]

\* the fields every entry is built with
EntryBase(status, dataset, scale) ==
    [status |-> status, id |-> dataset.id, type |-> dataset.type, bands |-> dataset.bands,
     scale |-> scale, defaultScale |-> dataset.defaultScale]

\* ErrorEntry with a data key left in the object
ErrorEntryWithData(dataset, scale, message) ==
    EntryBase("error", dataset, scale) @@ ("error" :> message) @@ ("data" :> NoResult)

ErrorEntry(dataset, scale, message) ==
    EntryBase("error", dataset, scale) @@ ("error" :> message)

SuccessEntry(dataset, scale, result) ==
    LET sceneId == SceneId(dataset, result)
        responseData == EntryBase("success", dataset, scale) @@ ("data" :> result)
    IN  IF Truthy(sceneId) THEN responseData @@ ("sceneId" :> sceneId) ELSE responseData

\* the body of one iteration of the loop, from the reply of the compute
\* call on: the entry stored in results[dataset.name]
EntryFor(dataset, customScale, reply) ==
    LET effectiveScale == EffectiveScale(customScale, dataset)
    IN  IF reply.throws THEN ErrorEntry(dataset, effectiveScale, <<"fetch failed">>)
        ELSE IF reply.ok
        THEN IF reply.json = "malformed"
             THEN ErrorEntry(dataset, effectiveScale, <<"Unexpected token in JSON">>)
             ELSE IF reply.json = "null"
             THEN ErrorEntry(dataset, effectiveScale, <<"Cannot read properties of null">>)
             ELSE SuccessEntry(dataset, effectiveScale, reply.result)
        ELSE ErrorEntry(dataset, effectiveScale, <<reply.text>>)

\* Store with the entry's type as the key
StoreByType(results, name, entry) ==
    [n \in DOMAIN results \cup {entry.type} |-> IF n = entry.type THEN entry ELSE results[n]]

\* results[name] = entry
Store(results, name, entry) ==
    [n \in DOMAIN results \cup {name} |-> IF n = name THEN entry ELSE results[n]]

\* JSON.stringify of an entry: a non-finite number is written as null and a
\* key whose value is undefined is left out
StringifyEntry(entry) ==
    LET keys == IF "data" \in DOMAIN entry /\ entry.data.kind = "undefined"
                THEN DOMAIN entry \ {"data"} ELSE DOMAIN entry
    IN  [k \in keys |-> IF k = "scale" THEN StringifyNumber(entry[k]) ELSE entry[k]]

\* the body of the 200 response of the multi-dataset handler, as written
\* by JSON.stringify
CombinedBody(req, customScale, results) ==
    [coordinates |-> [lat |-> StringifyNumber(req.body.lat), lon |-> StringifyNumber(req.body.lon)],
     scale |-> IF customScale = Undefined
               THEN [note |-> "Using default scales per dataset"]
               ELSE [requested |-> StringifyNumber(customScale),
                     note |-> IF Truthy(customScale) THEN "Custom scale applied to all datasets"
                              ELSE "Using default scales per dataset"],
     datasets |-> [n \in DOMAIN results |-> StringifyEntry(results[n])],
     timestamp |-> "now"]

\* SendCompute issuing the call of the next dataset as well
SendComputeAhead(h, i) ==
    LET call(j) == ComputeCall(h.projectId, h.token, Expression(datasets[j]))
    IN  [h EXCEPT !.pc = "compute", !.idx = i,
                  !.calls = IF i < Len(datasets) THEN Append(Append(@, call(i)), call(i + 1))
                            ELSE Append(@, call(i))]

\* the compute call of the dataset at position i is issued
SendCompute(h, i) ==
    [h EXCEPT !.pc = "compute", !.idx = i,
              !.calls = Append(@, ComputeCall(h.projectId, h.token, Expression(datasets[i])))]

\* AuthenticateViaPrivateKeyRest without the test of tokenRes.ok
AuthenticateIgnoringStatus(h, rev, reply) ==
    IF reply.throws THEN CatchTopLevel(h, <<"fetch failed">>)
    ELSE IF reply.json = "malformed" THEN CatchTopLevel(h, <<"Unexpected token in JSON">>)
    ELSE LET authed == [h EXCEPT !.token = reply.access_token]
         IN  IF rev = "single"
             THEN [authed EXCEPT !.pc = "compute",
                                 !.calls = Append(@, ComputeCall(h.projectId, reply.access_token,
                                                                 SingleExpression))]
             ELSE SendCompute(authed, 1)

\* the rest of authenticateViaPrivateKey and the handler up to the first
\* compute call, from the reply of the token exchange on
AuthenticateViaPrivateKeyRest(h, rev, reply) ==
    IF reply.throws THEN CatchTopLevel(h, <<"fetch failed">>)
    ELSE IF ~reply.ok THEN CatchTopLevel(h, <<"Authentication error: ", reply.text>>)
    ELSE IF reply.json = "malformed" THEN CatchTopLevel(h, <<"Unexpected token in JSON">>)
    ELSE LET authed == [h EXCEPT !.token = reply.access_token]
         IN  IF rev = "single"
             THEN [authed EXCEPT !.pc = "compute",
                                 !.calls = Append(@, ComputeCall(h.projectId, reply.access_token,
                                                                 SingleExpression))]
             ELSE SendCompute(authed, 1)

\* from the reply of the token exchange to the first compute call
AfterToken(h, rev, reply) ==
    AuthenticateViaPrivateKeyRest([h EXCEPT !.tokenRes = Append(@, reply)], rev, reply)

\* AfterComputeSingle without the test of eeRes.ok
AfterComputeSingleNoOkCheck(h, reply) ==
    IF reply.throws THEN CatchTopLevel(h, <<"fetch failed">>)
    ELSE IF reply.json = "malformed" THEN CatchTopLevel(h, <<"Unexpected token in JSON">>)
    ELSE IF reply.json = "null" THEN CatchTopLevel(h, <<"Cannot read properties of null">>)
    ELSE Respond(h, 200, reply.result)

\* single-compute: from the reply of the compute call to the response
AfterComputeSingle(h, reply) ==
    IF reply.throws THEN CatchTopLevel(h, <<"fetch failed">>)
    ELSE IF ~reply.ok
    THEN Respond(h, 502, [error |-> <<"EE compute failed">>, details |-> reply.text])
    ELSE IF reply.json = "malformed" THEN CatchTopLevel(h, <<"Unexpected token in JSON">>)
    ELSE IF reply.json = "null" THEN CatchTopLevel(h, <<"Cannot read properties of null">>)
    ELSE Respond(h, 200, reply.result)

\* AfterComputeMulti answering 502 when no dataset succeeded
AfterComputeMultiBadGateway(h, req, reply) ==
    LET dataset == datasets[h.idx]
        stored == [h EXCEPT !.results = Store(@, dataset.name,
                                              EntryFor(dataset, h.customScale, reply))]
        failed == \A n \in DOMAIN stored.results : stored.results[n].status = "error"
    IN  IF h.idx < Len(datasets) THEN SendCompute(stored, h.idx + 1)
        ELSE Respond(stored, IF failed THEN 502 ELSE 200,
                     CombinedBody(req, stored.customScale, stored.results))

\* AfterComputeMulti sending the call of a dataset once more after the
\* first error of the request
AfterComputeMultiRetry(h, req, reply) ==
    LET dataset == datasets[h.idx]
        entry == EntryFor(dataset, h.customScale, reply)
        stored == [h EXCEPT !.results = Store(@, dataset.name, entry)]
    IN  IF entry.status = "error" /\ Len(h.eeRes) = h.idx THEN SendCompute(h, h.idx)
        ELSE IF h.idx < Len(datasets) THEN SendCompute(stored, h.idx + 1)
        ELSE Respond(stored, 200, CombinedBody(req, stored.customScale, stored.results))

\* AfterComputeMulti leaving the loop at the first error entry
AfterComputeMultiFailFast(h, req, reply) ==
    LET dataset == datasets[h.idx]
        entry == EntryFor(dataset, h.customScale, reply)
        stored == [h EXCEPT !.results = Store(@, dataset.name, entry)]
    IN  IF h.idx < Len(datasets) /\ entry.status = "success" THEN SendCompute(stored, h.idx + 1)
        ELSE Respond(stored, 200, CombinedBody(req, stored.customScale, stored.results))

\* AfterComputeMulti without the try inside the loop: an exception of the
\* compute call or of eeRes.json() reaches the outer catch
AfterComputeMultiNoInnerCatch(h, req, reply) ==
    LET dataset == datasets[h.idx]
        stored == [h EXCEPT !.results = Store(@, dataset.name,
                                              EntryFor(dataset, h.customScale, reply))]
    IN  IF reply.throws THEN CatchTopLevel(h, <<"fetch failed">>)
        ELSE IF reply.ok /\ reply.json = "malformed" THEN CatchTopLevel(h, <<"Unexpected token in JSON">>)
        ELSE IF h.idx < Len(datasets) THEN SendCompute(stored, h.idx + 1)
        ELSE Respond(stored, 200, CombinedBody(req, stored.customScale, stored.results))

\* multi-dataset: from the reply of the compute call of dataset idx to the
\* next compute call, or to the response after the last dataset
AfterComputeMulti(h, req, reply) ==
    LET dataset == datasets[h.idx]
        stored == [h EXCEPT !.results = Store(@, dataset.name,
                                              EntryFor(dataset, h.customScale, reply))]
    IN  IF h.idx < Len(datasets) THEN SendCompute(stored, h.idx + 1)
        ELSE Respond(stored, 200, CombinedBody(req, stored.customScale, stored.results))

AfterCompute(h, rev, req, reply) ==
    LET settled == [h EXCEPT !.eeRes = Append(@, reply)]
    IN  IF rev = "single" THEN AfterComputeSingle(settled, reply)
        ELSE AfterComputeMulti(settled, req, reply)

(***************************************************************************)
(* The specification of one request.                                       *)
(***************************************************************************)
Revisions == {"single", "multi"}

Init ==
    /\ revision \in Revisions
    /\ env \in [SA_PRIVATE_KEY : Secrets]
    /\ request \in [{1} -> Requests]
    /\ run = [r \in {1} |-> NewRun]
    /\ diffAt = 0

\* the handler is entered and runs to the await of request.json()
Receive(r) ==
    /\ run[r].pc = "start"
    /\ run' = [run EXCEPT ![r] = Route(@, revision, request[r])]
    /\ UNCHANGED <<revision, env, request, diffAt>>

\* request.json() settles
BodyRead(r) ==
    /\ run[r].pc = "body"
    /\ run' = [run EXCEPT ![r] = Validate(@, revision, request[r], env)]
    /\ UNCHANGED <<revision, env, request, diffAt>>

\* the token exchange settles
TokenSettles(r) ==
    /\ run[r].pc = "token"
    /\ \E reply \in TokenReplies :
          run' = [run EXCEPT ![r] = AfterToken(@, revision, reply)]
    /\ UNCHANGED <<revision, env, request, diffAt>>

RepliesAt(h, rev) ==
    IF rev = "single" THEN ComputeReplies(datasets[1]) \cup {OkNotJson}
    ELSE ComputeReplies(datasets[h.idx])

\* a compute call settles
ComputeSettles(r) ==
    /\ run[r].pc = "compute"
    /\ \E reply \in RepliesAt(run[r], revision) :
          run' = [run EXCEPT ![r] = AfterCompute(@, revision, request[r], reply)]
    /\ UNCHANGED <<revision, env, request, diffAt>>

Next ==
    \/ \E r \in DOMAIN run : Receive(r)
    \/ \E r \in DOMAIN run : BodyRead(r)
    \/ \E r \in DOMAIN run : TokenSettles(r)
    \/ \E r \in DOMAIN run : ComputeSettles(r)

Spec == Init /\ [][Next]_vars

\* the same, where request.json() settles and every outbound call returns or
\* fails: no step of the handler that can be taken is put off for ever
LiveSpec ==
    /\ Init /\ [][Next]_vars
    /\ \A r \in {1} : /\ WF_vars(Receive(r)) /\ WF_vars(BodyRead(r))
                       /\ WF_vars(TokenSettles(r)) /\ WF_vars(ComputeSettles(r))

(***************************************************************************)
(* Two runs of the multi-dataset handler on the same request, stepped      *)
(* together; the upstream replies of the two runs agree for every dataset  *)
(* but the one at position diffAt.                                         *)
(***************************************************************************)
PairRuns == {1, 2}

PairBodies == {Obj(LatOk, LonOk, sc) : sc \in {Undefined, Num(MaxScale)}}

PairInit ==
    /\ revision = "multi"
    /\ env = [SA_PRIVATE_KEY |-> Secret(TRUE, TRUE, TRUE, TRUE)]
    /\ \E b \in PairBodies :
          request = [r \in PairRuns |-> [method |-> "POST", pathname |-> "/sensor", body |-> b]]
    /\ run = [r \in PairRuns |-> NewRun]
    /\ diffAt \in 1..Len(datasets)

PairReceive ==
    /\ \A r \in PairRuns : run[r].pc = "start"
    /\ run' = [r \in PairRuns |-> Route(run[r], revision, request[r])]
    /\ UNCHANGED <<revision, env, request, diffAt>>

PairBodyRead ==
    /\ \A r \in PairRuns : run[r].pc = "body"
    /\ run' = [r \in PairRuns |-> Validate(run[r], revision, request[r], env)]
    /\ UNCHANGED <<revision, env, request, diffAt>>

\* the two exchanges get the same successful reply
PairTokenSettles ==
    /\ \A r \in PairRuns : run[r].pc = "token"
    /\ \E reply \in {t \in TokenReplies : ~t.throws /\ t.ok /\ t.json = "object"} :
          run' = [r \in PairRuns |-> AfterToken(run[r], revision, reply)]
    /\ UNCHANGED <<revision, env, request, diffAt>>

\* every run that waits for a compute call gets its reply; two runs that
\* wait for the same dataset get the same reply unless it is the one at diffAt
PairComputeSettles ==
    /\ \E r \in PairRuns : run[r].pc = "compute"
    /\ \E replies \in [PairRuns -> UNION {ComputeReplies(datasets[i]) : i \in 1..Len(datasets)}] :
          /\ \A r \in PairRuns :
                run[r].pc = "compute" => replies[r] \in ComputeReplies(datasets[run[r].idx])
          /\ (run[1].pc = "compute" /\ run[2].pc = "compute" /\ run[1].idx = run[2].idx
                /\ run[1].idx # diffAt) => replies[1] = replies[2]
          /\ \A r \in PairRuns : run[r].pc # "compute" => replies[r] = FetchThrows
          /\ run' = [r \in PairRuns |->
                        IF run[r].pc = "compute"
                        THEN AfterCompute(run[r], revision, request[r], replies[r])
                        ELSE run[r]]
    /\ UNCHANGED <<revision, env, request, diffAt>>

PairNext ==
    \/ PairReceive
    \/ PairBodyRead
    \/ PairTokenSettles
    \/ PairComputeSettles

PairSpec == PairInit /\ [][PairNext]_vars

(***************************************************************************)
(* One request to the multi-dataset handler in which the payload of the    *)
(* dataset at position diffAt varies over the values of the four locations *)
(* probed for the scene identifier; every other dataset gets a payload     *)
(* with an identifier, or a non-2xx reply.                                 *)
(***************************************************************************)
\* the values of one location: missing, a number, the empty string and a
\* string with a '/' whose last piece names the location
LocationValues(loc) == {Undefined, Num(7), Str(<<"">>), Str(<<"COPERNICUS", loc>>)}

NullResult == [kind |-> "null", id |-> Undefined, index |-> Undefined,
               granule |-> Undefined, product |-> Undefined]

ScenePayloads ==
    {ResultObj(a, b, c, d) :
        a \in LocationValues("id") \cup {Str(<<"COPERNICUS", "">>)},
        b \in LocationValues("system:index"),
        c \in LocationValues("GRANULE_ID"),
        d \in LocationValues("PRODUCT_ID")}
    \cup {NoResult, NullResult}

SceneReplies(i) ==
    IF i = diffAt THEN {Ok(p) : p \in ScenePayloads} ELSE {Ok(SceneResult), NotOk}

SceneInit ==
    /\ revision = "multi"
    /\ env = [SA_PRIVATE_KEY |-> Secret(TRUE, TRUE, TRUE, TRUE)]
    /\ request = [r \in {1} |-> [method |-> "POST", pathname |-> "/sensor",
                                  body |-> Obj(LatOk, LonOk, Undefined)]]
    /\ run = [r \in {1} |-> NewRun]
    /\ diffAt \in 1..Len(datasets)

SceneComputeSettles(r) ==
    /\ run[r].pc = "compute"
    /\ \E reply \in SceneReplies(run[r].idx) :
          run' = [run EXCEPT ![r] = AfterCompute(@, revision, request[r], reply)]
    /\ UNCHANGED <<revision, env, request, diffAt>>

SceneNext ==
    \/ \E r \in DOMAIN run : Receive(r)
    \/ \E r \in DOMAIN run : BodyRead(r)
    \/ \E r \in DOMAIN run : TokenSettles(r)
    \/ \E r \in DOMAIN run : SceneComputeSettles(r)

SceneSpec == SceneInit /\ [][SceneNext]_vars

(***************************************************************************)
(* Two requests handled by the same worker, their runs interleaved at the  *)
(* awaits.  Everything a run writes is a local of its own invocation of    *)
(* fetch; the token endpoint hands a different token to each exchange.     *)
(***************************************************************************)
ConcRuns == {1, 2}

ConcBodies == {Malformed, Obj(LatOk, LonOk, Undefined), Obj(Num(MaxLat), LonOk, Num(MaxScale))}

ConcInit ==
    /\ revision \in Revisions
    /\ env = [SA_PRIVATE_KEY |-> Secret(TRUE, TRUE, TRUE, TRUE)]
    /\ request \in [ConcRuns -> {[method |-> "POST", pathname |-> "/", body |-> b] : b \in ConcBodies}]
    /\ run = [r \in ConcRuns |-> NewRun]
    /\ diffAt = 0

\* the replies of the token endpoint to the exchange of run r
ConcTokenReplies(r) ==
    {TokenReply(FALSE, TRUE, "", "object", IF r = 1 THEN "ya29.first" ELSE "ya29.second"),
     TokenReply(FALSE, FALSE, "invalid_grant", "object", "")}

\* ConcTokenSettles keeping the token in a place shared by the runs
ConcTokenSettlesCached(r) ==
    /\ run[r].pc = "token"
    /\ \E reply \in ConcTokenReplies(r) :
          run' = [q \in DOMAIN run |->
                     IF q = r THEN AfterToken(run[q], revision, reply)
                     ELSE IF reply.ok THEN [run[q] EXCEPT !.token = reply.access_token]
                     ELSE run[q]]
    /\ UNCHANGED <<revision, env, request, diffAt>>

\* the token exchange of run r settles
ConcTokenSettles(r) ==
    /\ run[r].pc = "token"
    /\ \E reply \in ConcTokenReplies(r) :
          run' = [run EXCEPT ![r] = AfterToken(@, revision, reply)]
    /\ UNCHANGED <<revision, env, request, diffAt>>

ConcReplies == {NotOk, Ok(SceneResult)}

\* a compute call of run r settles
ConcComputeSettles(r) ==
    /\ run[r].pc = "compute"
    /\ \E reply \in ConcReplies :
          run' = [run EXCEPT ![r] = AfterCompute(@, revision, request[r], reply)]
    /\ UNCHANGED <<revision, env, request, diffAt>>

ConcNext ==
    \/ \E r \in DOMAIN run : Receive(r)
    \/ \E r \in DOMAIN run : BodyRead(r)
    \/ \E r \in DOMAIN run : ConcTokenSettles(r)
    \/ \E r \in DOMAIN run : ConcComputeSettles(r)

ConcSpec == ConcInit /\ [][ConcNext]_vars

(***************************************************************************)
(* Two calls with the same request and credentials, stepped together, in   *)
(* which the upstream outcome of every dataset is of the same kind in the  *)
(* two calls; for the dataset at diffAt the values of the payload differ.  *)
(***************************************************************************)
\* the fields the payload holds among those the handler reads
Fields(result) == {f \in {"id", "index", "granule", "product"} : result[f] # Undefined}

\* two replies of the same kind: both thrown, both non-2xx, both 2xx without
\* JSON, or both 2xx with a payload that holds the same fields
SameKind(a, b) ==
    /\ a.throws = b.throws /\ a.ok = b.ok /\ a.json = b.json
    /\ a.result.kind = b.result.kind /\ Fields(a.result) = Fields(b.result)

ShapePayloads ==
    {ResultObj(a, b, Undefined, Undefined) :
        a \in LocationValues("id") \cup {Str(<<"COPERNICUS", "">>)},
        b \in LocationValues("system:index")}
    \cup {NoResult, NullResult}

ShapeReplies == {Ok(p) : p \in ShapePayloads} \cup {FetchThrows, NotOk, OkNotJson}

\* the compute calls of the two runs for the same dataset settle
ShapeComputeSettles ==
    /\ \A r \in PairRuns : run[r].pc = "compute"
    /\ run[1].idx = run[2].idx
    /\ \E a, b \in ShapeReplies \cup {Ok(SceneResult)} :
          /\ IF run[1].idx = diffAt
             THEN a \in ShapeReplies /\ b \in ShapeReplies /\ SameKind(a, b)
             ELSE a \in {Ok(SceneResult), NotOk} /\ b = a
          /\ run' = [r \in PairRuns |->
                        AfterCompute(run[r], revision, request[r], IF r = 1 THEN a ELSE b)]
    /\ UNCHANGED <<revision, env, request, diffAt>>

ShapeNext ==
    \/ PairReceive
    \/ PairBodyRead
    \/ PairTokenSettles
    \/ ShapeComputeSettles

ShapeSpec == PairInit /\ [][ShapeNext]_vars

(***************************************************************************)
(* Properties.                                                             *)
(***************************************************************************)
Done(r) == run[r].pc = "done"

\* the run has left the code before the await of request.json()
Routed(r) == run[r].pc # "start"

\* the run has left the code before the token exchange
Validated(r) == run[r].pc \notin {"start", "body"}

Status(r) == run[r].response[1].status

Body(r) == run[r].response[1].body

PostAccepted(r) ==
    request[r].method = "POST" /\ request[r].pathname \in AcceptedPaths(revision)

\* v is a number outside [lo, hi], bounds in tenths
OutOfRange(v, lo, hi) ==
    TypeOf(v) = "number" /\ ~IsNaN(v) /\ (v.cls = "inf" \/ v.num < lo \/ v.num > hi)

IsValidNumber(v) == TypeOf(v) = "number" /\ ~IsNaN(v)

\* C1: a request whose method is not POST is answered 405, whatever its path
\* and body, and is answered as soon as the handler is entered.
C1_NonPostIs405 ==
    \A r \in DOMAIN run :
        (request[r].method # "POST" /\ Routed(r)) => (Done(r) /\ Status(r) = 405)

C1_Witness ==
    \E r \in DOMAIN run :
        /\ request[r].method = "GET" /\ request[r].pathname = "/other"
        /\ request[r].body = Malformed
        /\ Done(r) /\ Status(r) = 405

\* C2: a POST to an accepted path with a numeric lat outside [-90, 90] or a
\* numeric lon outside [-180, 180] is answered 400 and issues no upstream call.
C2_OutOfRangeIs400 ==
    \A r \in DOMAIN run :
        (/\ PostAccepted(r) /\ request[r].body.json = "object"
         /\ IsValidNumber(request[r].body.lat) /\ IsValidNumber(request[r].body.lon)
         /\ (OutOfRange(request[r].body.lat, -900, 900) \/ OutOfRange(request[r].body.lon, -1800, 1800))
         /\ Validated(r))
        => (Done(r) /\ Status(r) = 400 /\ run[r].calls = <<>>)

\* C3: a POST to an accepted path whose body is JSON but holds no numeric lat
\* and lon is answered 400, for every JSON value of the body.
C3_MissingLatLonIs400 ==
    \A r \in DOMAIN run :
        (/\ PostAccepted(r) /\ request[r].body.json # "malformed"
         /\ (~IsValidNumber(request[r].body.lat) \/ ~IsValidNumber(request[r].body.lon))
         /\ Validated(r))
        => (Done(r) /\ Status(r) = 400)

\* C4: a POST to an accepted path whose body is no JSON is answered 400 with an
\* error field, whatever the secret, without parsing credentials or calling upstream.
C4_MalformedIs400 ==
    \A r \in DOMAIN run :
        (PostAccepted(r) /\ request[r].body = Malformed /\ Validated(r))
        => (/\ Done(r) /\ Status(r) = 400
            /\ "error" \in DOMAIN Body(r) /\ Body(r).error # <<>>
            /\ ~run[r].credentialsParsed /\ run[r].calls = <<>>)

C4_Witness ==
    \E r \in DOMAIN run :
        /\ PostAccepted(r) /\ request[r].body = Malformed
        /\ ~env.SA_PRIVATE_KEY.json
        /\ Done(r) /\ Status(r) = 400

\* C5: a POST to /sensor-data with no body or an invalid body is answered 400.
C5_SensorDataIs400 ==
    \A r \in DOMAIN run :
        (/\ request[r].method = "POST" /\ request[r].pathname = "/sensor-data"
         /\ request[r].body = Malformed /\ Done(r))
        => Status(r) = 400

\* C6: a POST is answered 404 exactly when its path is none of /sensor, /image and /.
C6_NotFoundIffUnknownPath ==
    \A r \in DOMAIN run :
        (request[r].method = "POST" /\ Done(r))
        => (Status(r) = 404 <=> request[r].pathname \notin {"/sensor", "/image", "/"})

\* the scale of the request is present and is no positive number
ScalePresentInvalid(sc) ==
    sc # Undefined /\ (TypeOf(sc) # "number" \/ IsNaN(sc) \/ (sc.cls = "finite" /\ sc.num <= 0))

\* C7: in the multi-dataset handler a POST to an accepted path with numeric lat
\* and lon and a scale that is present but no positive number (null, false and
\* 0 among them) is answered 400 with the scale message, before any call.
C7_BadScaleIs400 ==
    \A r \in DOMAIN run :
        (/\ revision = "multi" /\ PostAccepted(r) /\ request[r].body.json = "object"
         /\ IsValidNumber(request[r].body.lat) /\ IsValidNumber(request[r].body.lon)
         /\ ScalePresentInvalid(request[r].body.scale)
         /\ Validated(r))
        => (/\ Done(r) /\ Status(r) = 400
            /\ Body(r).error = <<"Scale must be a positive number">>
            /\ run[r].calls = <<>>)

C7_Witness ==
    \E r \in DOMAIN run :
        /\ revision = "multi" /\ PostAccepted(r)
        /\ request[r].body = Obj(LatOk, LonOk, Null)
        /\ Done(r) /\ Status(r) = 400

DatasetOf(name) == CHOOSE d \in {datasets[i] : i \in 1..Len(datasets)} : d.name = name

MultiOk(r) == revision = "multi" /\ Done(r) /\ Status(r) = 200

\* C8: in a 200 response of the multi-dataset handler every entry's scale is the
\* dataset's defaultScale when the request had no scale, and is the request's
\* scale s, for success and error entries alike, when s is a finite positive number.
C8_EntryScale ==
    \A r \in DOMAIN run :
        MultiOk(r) =>
            \A n \in DOMAIN Body(r).datasets :
                /\ request[r].body.scale = Undefined
                      => Body(r).datasets[n].scale = DatasetOf(n).defaultScale
                /\ (IsValidNumber(request[r].body.scale) /\ request[r].body.scale.cls = "finite")
                      => Body(r).datasets[n].scale = request[r].body.scale

C8_Witness ==
    \E r \in DOMAIN run :
        /\ MultiOk(r) /\ request[r].body.scale = Num(MaxScale)
        /\ \E n, m \in DOMAIN Body(r).datasets :
              /\ Body(r).datasets[n].status = "success"
              /\ Body(r).datasets[m].status = "error"
              /\ DatasetOf(n).defaultScale # Num(MaxScale)
              /\ DatasetOf(m).defaultScale # Num(MaxScale)

\* C9: once validation, credential extraction and the token exchange have
\* succeeded, the response of the multi-dataset handler is a 200 whose datasets
\* map has the 7 registry names as its keys, each entry with status success or error.
C9_SevenEntries ==
    \A r \in DOMAIN run :
        (revision = "multi" /\ Done(r) /\ run[r].token # "")
        => (/\ Status(r) = 200
            /\ DOMAIN Body(r).datasets = DatasetNames
            /\ Cardinality(DOMAIN Body(r).datasets) = 7
            /\ \A n \in DatasetNames : Body(r).datasets[n].status \in {"success", "error"})

C9_Witness ==
    \E r \in DOMAIN run :
        /\ MultiOk(r)
        /\ \A n \in DatasetNames : Body(r).datasets[n].status = "error"
        /\ \E n, m \in DatasetNames :
              Body(r).datasets[n].error = <<"fetch failed">>
              /\ Body(r).datasets[m].error = <<NotOk.text>>

NameAt(i) == datasets[i].name

\* C10: two runs on the same request whose upstream replies differ for the
\* dataset at diffAt only end with the same entry for every other dataset, and
\* both runs query and record all the datasets.
C10_FailureIsolation ==
    (Done(1) /\ Done(2))
    => (/\ DOMAIN run[1].results = DatasetNames
        /\ DOMAIN run[2].results = DatasetNames
        /\ Len(run[1].calls) = Len(run[2].calls)
        /\ \A j \in 1..Len(datasets) :
              j # diffAt => (/\ run[1].results[NameAt(j)] = run[2].results[NameAt(j)]
                             /\ Body(1).datasets[NameAt(j)] = Body(2).datasets[NameAt(j)]))

C10_Witness ==
    /\ Done(1) /\ Done(2)
    /\ diffAt < Len(datasets)
    /\ run[1].results[NameAt(diffAt)].status = "error"
    /\ run[2].results[NameAt(diffAt)].status = "success"
    /\ \E j \in (diffAt + 1)..Len(datasets) :
          run[1].results[NameAt(j)].status = "success"

\* the entry is of one of the two forms: an error entry has an error and
\* neither data nor sceneId, a success entry has no error
OneForm(entry) ==
    /\ entry.status \in {"success", "error"}
    /\ entry.status = "error"
          => ("error" \in DOMAIN entry /\ "data" \notin DOMAIN entry /\ "sceneId" \notin DOMAIN entry)
    /\ entry.status = "success" => "error" \notin DOMAIN entry

\* C11: every dataset entry, as stored and as written in the response, is an
\* error entry without data and sceneId or a success entry without error.
C11_EntryForms ==
    \A r \in DOMAIN run :
        /\ \A n \in DOMAIN run[r].results : OneForm(run[r].results[n])
        /\ MultiOk(r) => \A n \in DOMAIN Body(r).datasets : OneForm(Body(r).datasets[n])

C11_Witness ==
    \E r \in DOMAIN run :
        /\ MultiOk(r)
        /\ \E n, m \in DOMAIN Body(r).datasets :
              /\ Body(r).datasets[n].status = "error"
              /\ Body(r).datasets[m].status = "success"
              /\ "sceneId" \in DOMAIN Body(r).datasets[m]

\* the four locations of a payload, in the order of the probe
Locations(result) == <<result.id, result.index, result.granule, result.product>>

HoldsString(v) == v.type = "string" /\ v.segs # <<"">>

\* the payload holds a non-empty string at one of the four locations
IdentifierFound(result) ==
    result.kind = "object" /\ \E k \in 1..4 : HoldsString(Locations(result)[k])

\* the compute call of the dataset at position i got a 2xx reply with a JSON body
GotPayload(r, i) ==
    /\ i <= Len(run[r].eeRes)
    /\ ~run[r].eeRes[i].throws /\ run[r].eeRes[i].ok /\ run[r].eeRes[i].json = "object"

\* C12: an entry carries sceneId only for a Sentinel dataset whose successful
\* payload holds an identifier, and then a non-empty string; entries of the
\* other datasets never do; a payload without a usable identifier gives a
\* success entry without sceneId.
C12_SceneIdOnlySentinel ==
    \A r \in DOMAIN run :
        \A i \in 1..Len(datasets) :
            NameAt(i) \in DOMAIN run[r].results =>
                LET entry == run[r].results[NameAt(i)]
                IN  /\ "sceneId" \in DOMAIN entry
                          => (/\ Includes(NameAt(i), "Sentinel")
                              /\ entry.status = "success"
                              /\ GotPayload(r, i) /\ IdentifierFound(run[r].eeRes[i].result)
                              /\ HoldsString(entry.sceneId))
                    /\ ~Includes(NameAt(i), "Sentinel") => "sceneId" \notin DOMAIN entry
                    /\ (GotPayload(r, i) /\ ~IdentifierFound(run[r].eeRes[i].result))
                          => (entry.status = "success" /\ "sceneId" \notin DOMAIN entry)
                    /\ MultiOk(r)
                          => ("sceneId" \in DOMAIN entry
                                <=> "sceneId" \in DOMAIN Body(r).datasets[NameAt(i)])

C12_Witness ==
    \E r \in DOMAIN run :
        /\ MultiOk(r)
        /\ \E i, j \in 1..Len(datasets) :
              /\ Includes(NameAt(i), "Sentinel") /\ "sceneId" \in DOMAIN Body(r).datasets[NameAt(i)]
              /\ ~Includes(NameAt(j), "Sentinel") /\ j = diffAt
              /\ GotPayload(r, j) /\ IdentifierFound(run[r].eeRes[j].result)
              /\ Body(r).datasets[NameAt(j)].status = "success"

\* the first location that holds a non-empty string, 0 when there is none
FirstString(result) ==
    IF ~IdentifierFound(result) THEN 0
    ELSE CHOOSE k \in 1..4 :
            /\ HoldsString(Locations(result)[k])
            /\ \A m \in 1..(k - 1) : ~HoldsString(Locations(result)[m])

\* C13: for a Sentinel dataset with a successful payload the sceneId is the part
\* after the last '/' of the first location that holds a non-empty string, also
\* when an earlier location holds a value that is no string.
C13_FirstStringWins ==
    \A r \in DOMAIN run :
        \A i \in 1..Len(datasets) :
            (/\ NameAt(i) \in DOMAIN run[r].results
             /\ Includes(NameAt(i), "Sentinel")
             /\ GotPayload(r, i) /\ IdentifierFound(run[r].eeRes[i].result))
            => LET raw == Locations(run[r].eeRes[i].result)[FirstString(run[r].eeRes[i].result)]
                   entry == run[r].results[NameAt(i)]
               IN  raw.segs[Len(raw.segs)] # ""
                      => ("sceneId" \in DOMAIN entry
                          /\ entry.sceneId = Str(<<raw.segs[Len(raw.segs)]>>))

\* C14: once the token exchange has succeeded the multi-dataset handler goes
\* through all 7 datasets and answers 200, whatever the replies of the compute calls.
C14_Always200 ==
    \A r \in DOMAIN run :
        (revision = "multi" /\ run[r].token # "")
        => (/\ run[r].pc \in {"compute", "done"}
            /\ Done(r) => (Status(r) = 200 /\ Len(run[r].eeRes) = Len(datasets)))

C14_Witness ==
    \E r \in DOMAIN run :
        /\ MultiOk(r)
        /\ \A i \in 1..Len(datasets) : run[r].eeRes[i].throws

\* the sites at which an exception is raised
CredentialsRaised(r) ==
    run[r].credentialsParsed
    /\ (~env.SA_PRIVATE_KEY.json \/ ~env.SA_PRIVATE_KEY.private_key \/ ~env.SA_PRIVATE_KEY.pkcs8)

TokenRaised(r) ==
    /\ run[r].tokenRes # <<>>
    /\ (run[r].tokenRes[1].throws \/ ~run[r].tokenRes[1].ok \/ run[r].tokenRes[1].json = "malformed")

ComputeRaised(r, i) ==
    /\ i <= Len(run[r].eeRes)
    /\ (run[r].eeRes[i].throws
        \/ (run[r].eeRes[i].ok /\ run[r].eeRes[i].json \in {"malformed", "null"}))

\* C15 as stated: an exception raised during credential extraction,
\* authentication or any upstream call ends the request with 500.
C15_EveryExceptionIs500 ==
    \A r \in DOMAIN run :
        (Done(r) /\ (CredentialsRaised(r) \/ TokenRaised(r)
                     \/ \E i \in 1..Len(run[r].eeRes) : ComputeRaised(r, i)))
        => Status(r) = 500

\* C15 as amended: an exception raised during credential extraction,
\* authentication or the compute call of the single-compute handler is answered
\* 500 with its message as the error field; an exception of a compute call of
\* the multi-dataset handler is recorded in the dataset's entry and the
\* request is answered 200.
C15_TopLevelCatch ==
    \A r \in DOMAIN run :
        /\ (CredentialsRaised(r) \/ TokenRaised(r) \/ (revision = "single" /\ ComputeRaised(r, 1)))
              => (/\ Done(r) /\ Status(r) = 500
                  /\ DOMAIN Body(r) = {"error"} /\ Body(r).error # <<>>)
        /\ revision = "multi"
              => \A i \in 1..Len(run[r].eeRes) :
                    ComputeRaised(r, i)
                    => (/\ run[r].results[NameAt(i)].status = "error"
                        /\ run[r].results[NameAt(i)].error # <<>>
                        /\ Done(r) => Status(r) = 200)

C15_Witness ==
    \E r \in DOMAIN run :
        /\ revision = "single" /\ Done(r)
        /\ ComputeRaised(r, 1) /\ run[r].eeRes[1].throws
        /\ Status(r) = 500 /\ Body(r).error = <<"fetch failed">>

\* C16: a non-2xx reply of the token exchange ends the request with 500, the
\* error being the authentication message with the reply's text, and no
\* compute call is issued.
C16_AuthFailureIs500 ==
    \A r \in DOMAIN run :
        (run[r].tokenRes # <<>> /\ ~run[r].tokenRes[1].throws /\ ~run[r].tokenRes[1].ok)
        => (/\ Done(r) /\ Status(r) = 500
            /\ Body(r).error = <<"Authentication error: ", run[r].tokenRes[1].text>>
            /\ run[r].calls = <<TokenCall>>
            /\ run[r].eeRes = <<>>)

C16_Witness ==
    \E r \in DOMAIN run :
        /\ run[r].tokenRes # <<>> /\ ~run[r].tokenRes[1].throws /\ ~run[r].tokenRes[1].ok
        /\ run[r].tokenRes[1].text = "invalid_grant"
        /\ Done(r) /\ Status(r) = 500

\* C17: a secret that does not hold all of client_email, private_key and
\* project_id ends a validated request with 500 before any token exchange.
C17_IncompleteSecretIs500 ==
    \A r \in DOMAIN run :
        (/\ run[r].credentialsParsed
         /\ (\/ ~env.SA_PRIVATE_KEY.json \/ ~env.SA_PRIVATE_KEY.client_email
             \/ ~env.SA_PRIVATE_KEY.private_key \/ ~env.SA_PRIVATE_KEY.project_id))
        => (Done(r) /\ Status(r) = 500 /\ run[r].calls = <<>>)

CallsOf(r, kind) == {k \in 1..Len(run[r].calls) : run[r].calls[k].kind = kind}

\* extractCredentials has run and has returned
CredentialsExtracted(r) == run[r].credentialsParsed /\ env.SA_PRIVATE_KEY.json

\* the secret holds the three fields
SecretComplete ==
    /\ env.SA_PRIVATE_KEY.json /\ env.SA_PRIVATE_KEY.client_email
    /\ env.SA_PRIVATE_KEY.private_key /\ env.SA_PRIVATE_KEY.project_id

\* the JWT could be signed: private_key is a PKCS8 key
JwtSigned(r) ==
    CredentialsExtracted(r) /\ env.SA_PRIVATE_KEY.private_key /\ env.SA_PRIVATE_KEY.pkcs8

\* C19 as stated: a request that passes validation and credential extraction
\* performs exactly one token exchange, and the multi-dataset handler issues
\* exactly 7 compute calls after a successful exchange.
C19_ExactlyOneExchange ==
    \A r \in DOMAIN run :
        (Done(r) /\ CredentialsExtracted(r) /\ SecretComplete)
        => (/\ Cardinality(CallsOf(r, "token")) = 1
            /\ (revision = "multi" /\ run[r].token # "")
                  => Cardinality(CallsOf(r, "compute")) = Len(datasets))

\* C19 as amended: no request performs more than one token exchange, and a
\* request that passes validation, credential extraction and the signing of the
\* JWT performs exactly one; after a successful exchange the multi-dataset
\* handler issues exactly one compute call per dataset, with the token of that
\* exchange, and every call gets one reply, failed or not.
C19_NoRetryNoCache ==
    \A r \in DOMAIN run :
        /\ Cardinality(CallsOf(r, "token")) <= 1
        /\ Validated(r) /\ JwtSigned(r) => Cardinality(CallsOf(r, "token")) = 1
        /\ Validated(r) /\ ~JwtSigned(r) => run[r].calls = <<>>
        /\ Len(run[r].eeRes) <= Cardinality(CallsOf(r, "compute"))
        /\ Done(r) => Len(run[r].eeRes) = Cardinality(CallsOf(r, "compute"))
        /\ \A k \in CallsOf(r, "compute") :
              /\ run[r].tokenRes # <<>>
              /\ run[r].calls[k].token = run[r].tokenRes[1].access_token
        /\ (revision = "multi" /\ run[r].token # "" /\ Done(r))
              => (/\ Cardinality(CallsOf(r, "compute")) = Len(datasets)
                  /\ \A i \in 1..Len(datasets) :
                        run[r].calls[i + 1].expression = Expression(datasets[i]))

C19_Witness ==
    \E r \in DOMAIN run :
        /\ MultiOk(r)
        /\ \E i \in 1..Len(datasets) : ~run[r].eeRes[i].throws /\ ~run[r].eeRes[i].ok
        /\ \E i \in 1..Len(datasets) : run[r].eeRes[i].throws
        /\ Cardinality(CallsOf(r, "compute")) = Len(datasets)
        /\ Cardinality(CallsOf(r, "token")) = 1

\* C20: the compute calls of a request are issued in registry order, each after
\* the entry of the dataset before it has been stored, so that at most one
\* call is outstanding.
C20_Sequential ==
    \A r \in DOMAIN run :
        revision = "multi" =>
            /\ Cardinality(CallsOf(r, "compute")) - Len(run[r].eeRes) \in {0, 1}
            /\ \A k \in CallsOf(r, "compute") :
                  run[r].calls[k].expression = Expression(datasets[k - 1])
            /\ run[r].pc = "compute"
                  => (/\ Cardinality(CallsOf(r, "compute")) = run[r].idx
                      /\ Len(run[r].eeRes) = run[r].idx - 1
                      /\ DOMAIN run[r].results = {NameAt(j) : j \in 1..(run[r].idx - 1)})

C20_Witness ==
    \E r \in DOMAIN run :
        /\ revision = "multi" /\ run[r].pc = "compute" /\ run[r].idx = 4
        /\ Cardinality(CallsOf(r, "compute")) = 4
        /\ DOMAIN run[r].results = {NameAt(1), NameAt(2), NameAt(3)}
        /\ run[r].results[NameAt(2)].status = "error"

\* the handler fed the compute replies from position k on
RECURSIVE Feed(_, _, _, _, _)
Feed(h, rev, req, replies, k) ==
    IF h.pc = "compute" /\ k <= Len(replies)
    THEN Feed(AfterCompute(h, rev, req, replies[k]), rev, req, replies, k + 1)
    ELSE h

\* the run of the handler on one request alone, given the replies to its calls
Alone(rev, req, e, tokenReplies, computeReplies) ==
    LET routed == Route(NewRun, rev, req)
        validated == IF routed.pc = "body" THEN Validate(routed, rev, req, e) ELSE routed
        authed == IF validated.pc = "token" /\ Len(tokenReplies) > 0
                  THEN AfterToken(validated, rev, tokenReplies[1]) ELSE validated
    IN  Feed(authed, rev, req, computeReplies, 1)

\* C21: for every interleaving of two requests, a finished run is the run the
\* handler makes on that request alone with the replies to its own calls; every
\* compute call carries the token of the run's own exchange; and the entries of
\* a 200 response are built from the run's own replies and scale.
C21_NoInterference ==
    \A r \in DOMAIN run :
        /\ Done(r) => run[r] = Alone(revision, request[r], env, run[r].tokenRes, run[r].eeRes)
        /\ \A k \in CallsOf(r, "compute") :
              /\ Len(run[r].tokenRes) = 1
              /\ run[r].calls[k].token = run[r].tokenRes[1].access_token
        /\ (revision = "multi" /\ Done(r) /\ Status(r) = 200)
             => \A i \in 1..Len(datasets) :
                   Body(r).datasets[datasets[i].name]
                     = StringifyEntry(EntryFor(datasets[i], request[r].body.scale, run[r].eeRes[i]))

\* both requests were answered 200 after their calls were interleaved, with
\* different inputs, tokens and replies
C21_Witness ==
    /\ DOMAIN run = ConcRuns /\ revision = "multi"
    /\ Done(1) /\ Done(2) /\ Status(1) = 200 /\ Status(2) = 200
    /\ request[1].body # request[2].body
    /\ run[1].token # run[2].token
    /\ run[1].eeRes[3] # run[2].eeRes[3]
    /\ Body(1).datasets # Body(2).datasets

\* v is a number that is not finite
NonFinite(v) == TypeOf(v) = "number" /\ v.cls = "inf"

\* C22: a POST to an accepted path whose lat, lon or scale is a number that is
\* not finite is answered 400 before credentials are parsed or a call is sent.
C22_NonFiniteIs400 ==
    \A r \in DOMAIN run :
        (/\ PostAccepted(r) /\ request[r].body.json = "object"
         /\ (\/ NonFinite(request[r].body.lat) \/ NonFinite(request[r].body.lon)
             \/ NonFinite(request[r].body.scale))
         /\ Validated(r))
        => (Done(r) /\ Status(r) = 400 /\ ~run[r].credentialsParsed /\ run[r].calls = <<>>)

\* C23: a 200 response of the multi-dataset handler to a request with a scale
\* reports no requested scale and no entry scale below 1 or above 10000 meters.
C23_ScaleWithinLimits ==
    \A r \in DOMAIN run :
        (MultiOk(r) /\ request[r].body.scale # Undefined)
        => (/\ "requested" \in DOMAIN Body(r).scale
               => ~OutOfRange(Body(r).scale.requested, 10, 100000)
            /\ \A n \in DOMAIN Body(r).datasets :
                  ~OutOfRange(Body(r).datasets[n].scale, 10, 100000))

\* the status and the sets of keys of the response of run r
ShapeOf(r) ==
    [status |-> Status(r),
     top |-> DOMAIN Body(r),
     coordinates |-> DOMAIN Body(r).coordinates,
     scale |-> DOMAIN Body(r).scale,
     datasets |-> [n \in DOMAIN Body(r).datasets |-> DOMAIN Body(r).datasets[n]]]

\* the replies of the two runs are of the same kind for every dataset
SameKinds ==
    /\ Len(run[1].eeRes) = Len(datasets) /\ Len(run[2].eeRes) = Len(datasets)
    /\ \A i \in 1..Len(datasets) : SameKind(run[1].eeRes[i], run[2].eeRes[i])

\* C24 as stated: two calls with the same request and credentials and replies
\* of the same kind for every dataset (same success or failure, same payload
\* fields) end with the same status and the same keys everywhere.
C24_SameShape ==
    (Done(1) /\ Done(2) /\ SameKinds) => ShapeOf(1) = ShapeOf(2)

\* the probe of lines 423-431 finds an identifier in the payload: the first
\* truthy value of the four locations is a string whose last piece is not empty
Usable(result) ==
    /\ result.kind = "object"
    /\ \E k \in 1..4 :
          LET v == Locations(result)[k]
          IN  /\ Truthy(v) /\ \A m \in 1..(k - 1) : ~Truthy(Locations(result)[m])
              /\ v.type = "string" /\ v.segs[Len(v.segs)] # ""

\* C24 amended: the same holds when, in addition, for every dataset the probe
\* for the scene identifier finds one in both replies or in neither.
C24_SameShapeSameProbe ==
    (/\ Done(1) /\ Done(2) /\ SameKinds
     /\ \A i \in 1..Len(datasets) :
           Usable(run[1].eeRes[i].result) <=> Usable(run[2].eeRes[i].result))
    => ShapeOf(1) = ShapeOf(2)

\* two calls whose payloads for a Sentinel dataset hold the same fields with
\* different values, an identifier found in both, answered with the same shape
C24_Witness ==
    /\ DOMAIN run = PairRuns /\ Done(1) /\ Done(2) /\ SameKinds
    /\ diffAt = 2
    /\ run[1].eeRes[2] # run[2].eeRes[2]
    /\ Usable(run[1].eeRes[2].result) /\ Usable(run[2].eeRes[2].result)
    /\ "sceneId" \in DOMAIN Body(1).datasets[NameAt(2)]
    /\ ShapeOf(1) = ShapeOf(2)

\* the expression of the compute call of the dataset at position i
SentFor(r, i) == run[r].calls[i + 1].expression

\* the dataset's image or collection is loaded, each later node refers to
\* the node before it, and the last node, the result, selects the bands
Chain(expression, dataset, functionNames) ==
    LET n == Len(functionNames)
    IN  /\ Len(expression.values) = n /\ expression.result = n
        /\ \A k \in 1..n : expression.values[k].functionName = functionNames[k]
        /\ expression.values[1].constantValue = dataset.id
        /\ \A k \in 2..n : expression.values[k].valueReference = k - 1
        /\ expression.values[n].bandSelectors = dataset.bands

\* C25: every compute call of the multi-dataset handler sends load -> select
\* for an image and load -> Collection.first -> select for a collection, the
\* result being the last node, whatever the request and the registry's filters.
C25_ExpressionShape ==
    \A r \in DOMAIN run :
        revision = "multi" =>
            \A i \in 1..(Len(run[r].calls) - 1) :
                IF datasets[i].type = "image"
                THEN Chain(SentFor(r, i), datasets[i], <<"Image.load", "Image.select">>)
                ELSE Chain(SentFor(r, i), datasets[i],
                           <<"ImageCollection.load", "Collection.first", "Image.select">>)

\* the call of Sentinel-1, whose descriptor holds filters, went out with
\* three nodes, and so did the calls of all the datasets
C25_Witness ==
    \E r \in DOMAIN run :
        /\ revision = "multi" /\ Len(run[r].calls) = Len(datasets) + 1
        /\ "filters" \in DOMAIN datasets[3]
        /\ Len(SentFor(r, 3).values) = 3
        /\ request[r].body.scale = Num(MaxScale)

\* the response is the error response with this status and message
Rejected(r, status, message) ==
    Status(r) = status /\ Body(r) = [error |-> message]

\* C26: the response to a request is that of the first check it fails, in the
\* order method, path, body parse, lat/lon, scale (the scale only in the
\* multi-dataset handler); a request that fails none gets none of 400, 404, 405.
\* A body that is the JSON null fails no check and is left to C3.
C26_FirstFailingCheck ==
    \A r \in DOMAIN run :
        Done(r) =>
            CASE request[r].method # "POST" -> Rejected(r, 405, <<"Method not allowed">>)
              [] request[r].method = "POST" /\ request[r].pathname \notin AcceptedPaths(revision)
                    -> Rejected(r, 404, <<"Not found">>)
              [] PostAccepted(r) /\ request[r].body = Malformed
                    -> Rejected(r, 400, <<"Invalid JSON body">>)
              [] PostAccepted(r) /\ request[r].body.json = "null"
                    -> Status(r) \notin {400, 404, 405}
              [] /\ PostAccepted(r) /\ request[r].body.json \notin {"malformed", "null"}
                 /\ (~IsValidNumber(request[r].body.lat) \/ ~IsValidNumber(request[r].body.lon))
                    -> Rejected(r, 400, <<"Missing or invalid lat/lon parameters">>)
              [] /\ PostAccepted(r) /\ request[r].body.json \notin {"malformed", "null"}
                 /\ IsValidNumber(request[r].body.lat) /\ IsValidNumber(request[r].body.lon)
                 /\ revision = "multi" /\ ScalePresentInvalid(request[r].body.scale)
                    -> Rejected(r, 400, <<"Scale must be a positive number">>)
              [] OTHER -> Status(r) \notin {400, 404, 405}

\* a request without lat and with a scale of 0 got the lat/lon message
C26_Witness ==
    \E r \in DOMAIN run :
        /\ revision = "multi" /\ PostAccepted(r)
        /\ request[r].body = Obj(Undefined, LonOk, Num(0))
        /\ Done(r) /\ Rejected(r, 400, <<"Missing or invalid lat/lon parameters">>)

\* C27: a run answered 400, 404 or 405 has parsed no credential, sent no token
\* exchange and no compute call, and received no reply.
C27_ValidationFirst ==
    \A r \in DOMAIN run :
        (Done(r) /\ Status(r) \in {400, 404, 405})
        => (/\ ~run[r].credentialsParsed /\ run[r].calls = <<>>
            /\ run[r].tokenRes = <<>> /\ run[r].eeRes = <<>>)

\* the last of the checks rejected a request while the secret was usable
C27_Witness ==
    \E r \in DOMAIN run :
        /\ env.SA_PRIVATE_KEY = Secret(TRUE, TRUE, TRUE, TRUE)
        /\ PostAccepted(r) /\ request[r].body = Obj(LatOk, LonOk, Num(-50))
        /\ revision = "multi" /\ Done(r) /\ Status(r) = 400 /\ run[r].calls = <<>>

\* the compute call of the dataset at position i threw, or got a 2xx reply
\* whose body is no JSON
Raised(r, i) ==
    run[r].eeRes[i].throws \/ (run[r].eeRes[i].ok /\ run[r].eeRes[i].json = "malformed")

\* the message of the exception raised by the call of the dataset at position i
MessageOf(r, i) ==
    IF run[r].eeRes[i].throws THEN <<"fetch failed">> ELSE <<"Unexpected token in JSON">>

\* C28: in the multi-dataset handler a compute call that throws or whose 2xx
\* body is no JSON leaves an error entry with the exception's message for its
\* dataset, the next dataset is queried, and the request is answered 200 with
\* all seven entries, never 500.
C28_InnerCatch ==
    \A r \in DOMAIN run :
        revision = "multi" =>
            \A i \in 1..Len(run[r].eeRes) :
                Raised(r, i) =>
                    /\ NameAt(i) \in DOMAIN run[r].results
                    /\ run[r].results[NameAt(i)].status = "error"
                    /\ run[r].results[NameAt(i)].error = MessageOf(r, i)
                    /\ "data" \notin DOMAIN run[r].results[NameAt(i)]
                    /\ i < Len(datasets) => Cardinality(CallsOf(r, "compute")) >= i + 1
                    /\ Done(r) => (/\ Status(r) = 200 /\ Len(run[r].eeRes) = Len(datasets)
                                   /\ DOMAIN Body(r).datasets = DatasetNames)

\* a thrown call and a 2xx reply without JSON, each followed by a dataset
\* that succeeded, in a request answered 200
C28_Witness ==
    \E r \in DOMAIN run :
        /\ MultiOk(r)
        /\ run[r].eeRes[1].throws /\ Body(r).datasets[NameAt(1)].status = "error"
        /\ run[r].eeRes[3] = OkNotJson /\ Body(r).datasets[NameAt(3)].status = "error"
        /\ Body(r).datasets[NameAt(2)].status = "success"
        /\ Body(r).datasets[NameAt(4)].status = "success"

\* the entries of the response of run r, empty unless it is a 200 response of
\* the multi-dataset handler
EntriesOf(r) ==
    IF MultiOk(r) THEN Body(r).datasets ELSE [n \in {} |-> Undefined]

\* C29: every entry stored or returned, for a request with or without a
\* custom scale and for a success or an error, has the id, type, bands and
\* defaultScale of its dataset's descriptor; and the entries that two requests
\* get for the same dataset from the same reply differ in nothing but the scale,
\* whichever request was handled first.
C29_DescriptorFrame ==
    /\ \A r \in DOMAIN run : \A i \in 1..Len(datasets) :
          /\ NameAt(i) \in DOMAIN run[r].results
                => LET entry == run[r].results[NameAt(i)]
                   IN  /\ entry.id = datasets[i].id /\ entry.type = datasets[i].type
                       /\ entry.bands = datasets[i].bands
                       /\ entry.defaultScale = datasets[i].defaultScale
          /\ NameAt(i) \in DOMAIN EntriesOf(r)
                => LET entry == EntriesOf(r)[NameAt(i)]
                   IN  /\ entry.id = datasets[i].id /\ entry.type = datasets[i].type
                       /\ entry.bands = datasets[i].bands
                       /\ entry.defaultScale = datasets[i].defaultScale
    /\ \A r, q \in DOMAIN run : \A i \in 1..Len(datasets) :
          (/\ NameAt(i) \in DOMAIN run[r].results /\ NameAt(i) \in DOMAIN run[q].results
           /\ run[r].eeRes[i] = run[q].eeRes[i])
          => LET a == run[r].results[NameAt(i)]
                 b == run[q].results[NameAt(i)]
             IN  /\ DOMAIN a = DOMAIN b
                 /\ \A k \in DOMAIN a \ {"scale"} : a[k] = b[k]

\* a request with a custom scale and one without were answered 200, the same
\* replies giving a success entry and an error entry that differ in the scale
C29_Witness ==
    /\ DOMAIN run = ConcRuns /\ MultiOk(1) /\ MultiOk(2)
    /\ request[1].body.scale = Num(MaxScale) /\ request[2].body.scale = Undefined
    /\ run[1].eeRes[1] = run[2].eeRes[1] /\ run[1].eeRes[2] = run[2].eeRes[2]
    /\ Body(1).datasets[NameAt(1)].status = "error"
    /\ Body(1).datasets[NameAt(2)].status = "success"
    /\ Body(1).datasets[NameAt(1)].scale # Body(2).datasets[NameAt(1)].scale
    /\ Body(1).datasets[NameAt(2)].scale # Body(2).datasets[NameAt(2)].scale
    /\ Body(2).datasets[NameAt(1)].scale = datasets[1].defaultScale

StatusesOf(rev) ==
    IF rev = "multi" THEN {200, 400, 404, 405, 500} ELSE {200, 400, 404, 405, 500, 502}

\* C30: the request is eventually answered; an answered run holds one response,
\* with a status of its revision's set; and nothing happens to it afterwards.
C30_ExactlyOneResponse ==
    /\ <>Done(1)
    /\ [](Done(1) => (Len(run[1].response) = 1 /\ Status(1) \in StatusesOf(revision)))
    /\ [](~Done(1) => run[1].response = <<>>)
    /\ [][Done(1) => run' = run]_vars

\* the request was answered after the token exchange and all seven compute
\* calls had settled, the last of them by a failure
C30_Witness ==
    /\ revision = "multi" /\ Done(1) /\ Status(1) = 200
    /\ Len(run[1].tokenRes) = 1 /\ Len(run[1].eeRes) = Len(datasets)
    /\ run[1].eeRes[Len(datasets)].throws
====
